---- MODULE Spec2Model ----
(***************************************************************************)
(* Model of server/xai/__init__.py: the module body that builds the Flask  *)
(* application, wraps its WSGI entry point with ProxyFix, loads            *)
(* ../settings.py into app.config, aliases it as SETTINGS, constructs the  *)
(* flask_sockets extension and imports the route module.                   *)
(*                                                                         *)
(* The module body is a straight-line Python program.  Each statement is   *)
(* one action; a statement that raises ends the import (exc is set).       *)
(* Objects live in a heap (apps, configs, WSGI callables, Sockets          *)
(* objects) and module globals hold references (0 = name not bound), so    *)
(* that identity and aliasing are observable.                              *)
(*                                                                         *)
(* The three library imports of lines 1-3 are taken to succeed (the        *)
(* libraries are installed); the calls into them are modelled by what the  *)
(* libraries do: Flask.__init__, werkzeug ProxyFix, Config.from_pyfile /   *)
(* Config.from_object, flask_sockets Sockets.__init__ / init_app /         *)
(* SocketMiddleware.__call__.                                              *)
(***************************************************************************)
EXTENDS Integers, Sequences, FiniteSets, TLC

\* Setting values are abstract tokens 1..MaxVal.
MaxVal == 2

Vals == 1..MaxVal

\* What a mapping holds for a name: a value, or 0 when it lacks the name.
ValsOrAbsent == 0..MaxVal

\* Names a settings file may define: one that Flask also has a default for,
\* one that only the file defines, and one lower-case helper name.
Keys == {"DEBUG", "API_URL", "helper"}

\* str.isupper() on the names above.
isupper(k) == k \in {"DEBUG", "API_URL"}

\* A mapping from names to values.
Mappings == [Keys -> ValsOrAbsent]

EmptyMapping == [k \in Keys |-> 0]

Has(m, k) == m[k] \in Vals

\* Directory of the package (Flask's root_path for import name "xai") and
\* the two places a settings.py could sit.
PackageDir == <<"server", "xai">>

SettingsAbove == <<"server", "settings.py">>

SettingsBeside == <<"server", "xai", "settings.py">>

\* A file is missing, not executable as Python, or defines some names.
Files == [status : {"missing", "invalid"}, vars : {EmptyMapping}]
           \cup [status : {"ok"}, vars : Mappings]

\* URL paths a request can carry and a route can be registered under.
Paths == {"/", "/ws"}

\* A request: its path, and whether the server put a websocket into the
\* WSGI environ (environ['wsgi.websocket']).
Requests == [path : Paths, websocket : BOOLEAN]

NoRequest == [path |-> "", websocket |-> FALSE]

\* The route module xai.txtconv.route: not importable, or importable and
\* registering HTTP routes on app and websocket routes on sockets.
RouteModules == [importable : {FALSE}, http : {{}}, ws : {{}}]
                  \cup [importable : {TRUE}, http : SUBSET Paths, ws : SUBSET Paths]

VARIABLES
    pc,           \* index in Program of the statement to execute next
    globals,      \* module namespace: app, SETTINGS, sockets (0 = unbound)
    heap,         \* objects: apps, cfgs, calls, socks (sequences, id = index)
    log,          \* statements executed so far, in order (history)
    exc,          \* exception that ended the import, "" if none
    fs,           \* the file system: path -> file
    routeModule,  \* the route module found on the import path
    lastRequest,  \* last request served through app.wsgi_app
    lastChain     \* the callables that request passed through, outermost first

vars == <<pc, globals, heap, log, exc, fs, routeModule, lastRequest, lastChain>>

----------------------------------------------------------------------------
\* The module body, lines 6-13, as a sequence of statements.
\* Faulty variant: the route module is imported before sockets exists.
ProgramRouteBeforeSockets ==
    <<"Flask", "ProxyFix", "from_pyfile", "SETTINGS", "import_route", "Sockets">>

\* Faulty variant: the settings file is loaded a second time.
ProgramLoadsTwice ==
    <<"Flask", "ProxyFix", "from_pyfile", "SETTINGS", "Sockets", "from_pyfile",
      "import_route">>

Program ==
    <<"Flask", "ProxyFix", "from_pyfile", "SETTINGS", "Sockets", "import_route">>

\* Result of executing one statement.
Ok(g, h) == [exc |-> "", g |-> g, h |-> h]

Raise(e, g, h) == [exc |-> e, g |-> g, h |-> h]

NoGlobals == [app |-> 0, SETTINGS |-> 0, sockets |-> 0]

EmptyHeap == [apps |-> <<>>, cfgs |-> <<>>, calls |-> <<>>, socks |-> <<>>]

\* Flask.default_config, restricted to Keys: DEBUG defaults to False (token 1).
default_config == [k \in Keys |-> IF k = "DEBUG" THEN 1 ELSE 0]

\* A WSGI callable on the heap.
Callable(kind, inner, app, ws) == [kind |-> kind, inner |-> inner, app |-> app, ws |-> ws]

\* line 6: app = Flask(__name__, static_url_path='/static', static_folder='static')
\* Faulty variant: other static settings.
Exec_Flask_OtherStatic(g, h) ==
    LET cfg  == Len(h.cfgs) + 1
        call == Len(h.calls) + 1
        a    == Len(h.apps) + 1
        obj  == [static_url_path |-> "/assets", static_folder |-> "public",
                 root_path |-> PackageDir, config |-> cfg, wsgi_app |-> call,
                 url_map |-> {}]
    IN  Ok([g EXCEPT !.app = a],
           [h EXCEPT !.cfgs = Append(@, default_config),
                     !.calls = Append(@, Callable("Flask.wsgi_app", 0, a, 0)),
                     !.apps = Append(@, obj)])

Exec_Flask(g, h) ==
    LET cfg  == Len(h.cfgs) + 1
        call == Len(h.calls) + 1
        a    == Len(h.apps) + 1
        obj  == [static_url_path |-> "/static", static_folder |-> "static",
                 root_path |-> PackageDir, config |-> cfg, wsgi_app |-> call,
                 url_map |-> {}]
    IN  Ok([g EXCEPT !.app = a],
           [h EXCEPT !.cfgs = Append(@, default_config),
                     !.calls = Append(@, Callable("Flask.wsgi_app", 0, a, 0)),
                     !.apps = Append(@, obj)])

\* line 7: app.wsgi_app = ProxyFix(app.wsgi_app)
Exec_ProxyFix(g, h) ==
    IF g.app = 0 THEN Raise("NameError", g, h)
    ELSE LET call == Len(h.calls) + 1
         IN  Ok(g, [h EXCEPT !.calls = Append(@, Callable("ProxyFix", h.apps[g.app].wsgi_app, 0, 0)),
                             !.apps[g.app].wsgi_app = call])

\* os.path resolution of a path with ".." components (no symlinks).
RECURSIVE Resolve(_, _)
Resolve(done, rest) ==
    IF rest = <<>> THEN done
    ELSE IF Head(rest) = ".."
         THEN Resolve(IF done = <<>> THEN done ELSE SubSeq(done, 1, Len(done) - 1), Tail(rest))
         ELSE Resolve(Append(done, Head(rest)), Tail(rest))

\* The argument of from_pyfile on line 8.
\* Faulty variant: from_pyfile('settings.py'), the file inside the package.
SettingsFilenameBeside == <<"settings.py">>

SettingsFilename == <<"..", "settings.py">>

\* open(os.path.join(root_path, filename)): the file there, if any.
Open(path) ==
    IF path \in DOMAIN fs THEN fs[path] ELSE [status |-> "missing", vars |-> EmptyMapping]

\* Config.from_object: every upper-case attribute of the executed file is
\* assigned into the mapping; other names are skipped.
\* Faulty variant: names the mapping already holds keep their value.
from_object_setdefault(cfg, d) ==
    [k \in Keys |-> IF isupper(k) /\ Has(d, k) /\ ~Has(cfg, k) THEN d[k] ELSE cfg[k]]

from_object(cfg, d) ==
    [k \in Keys |-> IF isupper(k) /\ Has(d, k) THEN d[k] ELSE cfg[k]]

\* line 8: app.config.from_pyfile('../settings.py')
Exec_from_pyfile(g, h) ==
    IF g.app = 0 THEN Raise("NameError", g, h)
    ELSE LET a == h.apps[g.app]
             f == Open(Resolve(<<>>, a.root_path \o SettingsFilename))
         IN  CASE f.status = "missing" -> Raise("IOError", g, h)
               [] f.status = "invalid" -> Raise("SyntaxError", g, h)
               [] OTHER -> Ok(g, [h EXCEPT !.cfgs[a.config] = from_object(@, f.vars)])

\* line 9: SETTINGS = app.config
\* Faulty variant: SETTINGS = dict(app.config), a copy.
Exec_SETTINGS_Copy(g, h) ==
    IF g.app = 0 THEN Raise("NameError", g, h)
    ELSE Ok([g EXCEPT !.SETTINGS = Len(h.cfgs) + 1],
            [h EXCEPT !.cfgs = Append(@, h.cfgs[h.apps[g.app].config])])

Exec_SETTINGS(g, h) ==
    IF g.app = 0 THEN Raise("NameError", g, h)
    ELSE Ok([g EXCEPT !.SETTINGS = h.apps[g.app].config], h)

\* line 11: sockets = Sockets(app).  Sockets.__init__ creates its own url_map
\* and, given an app, calls init_app(app), which replaces app.wsgi_app by a
\* SocketMiddleware around the previous entry point.
\* Faulty variant: Sockets(Flask(__name__)), bound to a second application.
Exec_Sockets_OtherApp(g, h) ==
    LET made == Exec_Flask(NoGlobals, h)
        a    == made.g.app
        s    == Len(made.h.socks) + 1
        call == Len(made.h.calls) + 1
    IN  Ok([g EXCEPT !.sockets = s],
           [made.h EXCEPT !.socks = Append(@, [url_map |-> {}]),
                          !.calls = Append(@, Callable("SocketMiddleware",
                                                       made.h.apps[a].wsgi_app, a, s)),
                          !.apps[a].wsgi_app = call])

Exec_Sockets(g, h) ==
    IF g.app = 0 THEN Raise("NameError", g, h)
    ELSE LET s    == Len(h.socks) + 1
             call == Len(h.calls) + 1
         IN  Ok([g EXCEPT !.sockets = s],
                [h EXCEPT !.socks = Append(@, [url_map |-> {}]),
                          !.calls = Append(@, Callable("SocketMiddleware",
                                                       h.apps[g.app].wsgi_app, g.app, s)),
                          !.apps[g.app].wsgi_app = call])

\* line 13: import xai.txtconv.route.  The route module takes app and sockets
\* from this module's namespace and registers its handlers on them.
Exec_import_route(g, h) ==
    IF ~routeModule.importable \/ g.app = 0 \/ g.sockets = 0
    THEN Raise("ImportError", g, h)
    ELSE Ok(g, [h EXCEPT !.apps[g.app].url_map = @ \cup routeModule.http,
                         !.socks[g.sockets].url_map = @ \cup routeModule.ws])

----------------------------------------------------------------------------
\* The import is still executing the module body: nothing has raised (the
\* body has no try/except) and a statement is left.
\* Faulty variant: the body goes on after an exception.
RunningDespiteError == pc <= Len(Program)

Running == exc = "" /\ pc <= Len(Program)

\* The module body ran to its end: `import xai` returned.
Done == exc = "" /\ pc = Len(Program) + 1

Failed == exc # ""

\* Execute the statement at pc, whose effect is r.  An exception leaves the
\* namespace and heap as they were and ends the import at this statement.
Step(stmt, r) ==
    /\ Running
    /\ Program[pc] = stmt
    /\ log' = Append(log, stmt)
    /\ exc' = r.exc
    /\ IF r.exc = ""
       THEN /\ globals' = r.g
            /\ heap' = r.h
            /\ pc' = pc + 1
       ELSE UNCHANGED <<globals, heap, pc>>
    /\ UNCHANGED <<fs, routeModule, lastRequest, lastChain>>

Flask == Step("Flask", Exec_Flask(globals, heap))

ProxyFix == Step("ProxyFix", Exec_ProxyFix(globals, heap))

from_pyfile == Step("from_pyfile", Exec_from_pyfile(globals, heap))

SETTINGS == Step("SETTINGS", Exec_SETTINGS(globals, heap))

Sockets == Step("Sockets", Exec_Sockets(globals, heap))

import_route == Step("import_route", Exec_import_route(globals, heap))

\* The callables a request passes through when callable c is called with it,
\* outermost first.  ProxyFix.__call__ rewrites the environ and calls its
\* inner app.  SocketMiddleware.__call__ matches the path against the
\* Sockets url_map and reads environ['wsgi.websocket']: on a match with a
\* websocket it runs the websocket handler and returns; on NotFound or
\* KeyError it calls its inner app.
RECURSIVE Chain(_, _)
Chain(c, req) ==
    LET f == heap.calls[c]
    IN  CASE f.kind = "ProxyFix" -> <<"ProxyFix">> \o Chain(f.inner, req)
          [] f.kind = "SocketMiddleware" ->
                IF req.path \in heap.socks[f.ws].url_map /\ req.websocket
                THEN <<"SocketMiddleware", "ws_handler">>
                ELSE <<"SocketMiddleware">> \o Chain(f.inner, req)
          [] OTHER -> <<f.kind>>

\* A server that imported the module serves a request through app.wsgi_app.
Serve ==
    /\ Done
    /\ \E req \in Requests :
          /\ lastRequest' = req
          /\ lastChain' = Chain(heap.apps[globals.app].wsgi_app, req)
    /\ UNCHANGED <<pc, globals, heap, log, exc, fs, routeModule>>

\* Code outside this module (a route handler, or the route module while it
\* is imported) assigns a setting through one of the two names it can reach
\* the mapping by: xai.SETTINGS or xai.app.config.
CollaboratorWrite ==
    /\ exc = ""
    /\ globals.SETTINGS # 0
    /\ \E via \in {"SETTINGS", "app.config"}, k \in Keys, v \in Vals :
          LET ref == IF via = "SETTINGS" THEN globals.SETTINGS
                     ELSE heap.apps[globals.app].config
          IN  heap' = [heap EXCEPT !.cfgs[ref][k] = v]
    /\ UNCHANGED <<pc, globals, log, exc, fs, routeModule, lastRequest, lastChain>>

Init ==
    /\ pc = 1
    /\ globals = NoGlobals
    /\ heap = EmptyHeap
    /\ log = <<>>
    /\ exc = ""
    /\ fs \in [{SettingsAbove, SettingsBeside} -> Files]
    /\ routeModule \in RouteModules
    /\ lastRequest = NoRequest
    /\ lastChain = <<>>

\* One statement of the module body.
ImportStep == Flask \/ ProxyFix \/ from_pyfile \/ SETTINGS \/ Sockets \/ import_route

Next ==
    \/ Flask
    \/ ProxyFix
    \/ from_pyfile
    \/ SETTINGS
    \/ Sockets
    \/ import_route
    \/ Serve

Spec == Init /\ [][Next]_vars

\* The same program run beside collaborators that write settings.  Only the
\* settings file the program reads varies here.
InitWithWrites == Init /\ fs[SettingsBeside].status = "missing"

NextWithWrites == Next \/ CollaboratorWrite

SpecWithWrites == InitWithWrites /\ [][NextWithWrites]_vars

----------------------------------------------------------------------------
\* Helpers for stating the properties.

Count(seq, x) == Cardinality({i \in 1..Len(seq) : seq[i] = x})

IsPrefix(a, b) == Len(a) <= Len(b) /\ \A i \in 1..Len(a) : a[i] = b[i]

\* The kinds of the callables nested in callable c, outermost first.
RECURSIVE Nesting(_)
Nesting(c) ==
    IF heap.calls[c].inner = 0 THEN <<heap.calls[c].kind>>
    ELSE <<heap.calls[c].kind>> \o Nesting(heap.calls[c].inner)

\* The application's current entry point and its settings mapping.
EntryPoint == heap.apps[globals.app].wsgi_app

AppConfig == heap.cfgs[heap.apps[globals.app].config]

\* The settings file one directory above the package.
SettingsFile == fs[SettingsAbove]

\* The import is about to execute the statement stmt.
About(stmt) == Running /\ Program[pc] = stmt

Executed(stmt) == \E i \in 1..Len(log) : log[i] = stmt /\ (i < Len(log) \/ exc = "")

\* The five setup steps in the order the specification lists them (binding
\* SETTINGS belongs to step 3).
FiveSteps == <<"Flask", "ProxyFix", "from_pyfile", "SETTINGS", "Sockets", "import_route">>

----------------------------------------------------------------------------
\* C1: the setup steps run in the order construct app, wrap entry point, load
\* configuration, construct websocket extension, import routes, each at most
\* once; when the route import begins the app exists, its entry point is
\* wrapped by the fixer, the settings are loaded and bound, and the websocket
\* extension exists.
C1_SetupOrder ==
    /\ IsPrefix(log, FiveSteps)
    /\ About("import_route") =>
          /\ globals.app # 0
          /\ \E i \in 1..Len(Nesting(EntryPoint)) : Nesting(EntryPoint)[i] = "ProxyFix"
          /\ Executed("from_pyfile")
          /\ globals.SETTINGS # 0
          /\ globals.sockets # 0

C1_RouteImportBegins == About("import_route") /\ Len(log) = 5

\* C2: the settings are loaded exactly once, during initialization and before
\* any request is served, and once initialization has completed no step
\* changes the contents of the settings mapping.
C2_SettingsLoadedOnceThenFixed ==
    /\ [](/\ Count(log, "from_pyfile") <= 1
          /\ Done => Count(log, "from_pyfile") = 1
          /\ lastChain # <<>> => Done /\ Executed("from_pyfile"))
    /\ [][Done => /\ globals'.SETTINGS = globals.SETTINGS
                  /\ heap'.cfgs[globals.SETTINGS] = heap.cfgs[globals.SETTINGS]]_vars

C2_RequestServedAfterLoad ==
    Done /\ lastChain # <<>> /\ heap.cfgs[globals.SETTINGS] # default_config

\* C3 as stated: after initialization the settings mapping is non-empty and
\* every name the settings file defines is in it with the file's value.
C3_EveryFilePairLoaded ==
    Done =>
      /\ \E k \in Keys : Has(heap.cfgs[globals.SETTINGS], k)
      /\ \A k \in Keys :
            Has(SettingsFile.vars, k) => heap.cfgs[globals.SETTINGS][k] = SettingsFile.vars[k]

\* C3 amended: after initialization the settings mapping is non-empty and
\* every upper-case name the settings file one directory above the package
\* defines is in it with the file's value.
C3_UpperCasePairsLoaded ==
    Done =>
      /\ \E k \in Keys : Has(heap.cfgs[globals.SETTINGS], k)
      /\ \A k \in Keys :
            (isupper(k) /\ Has(SettingsFile.vars, k))
              => heap.cfgs[globals.SETTINGS][k] = SettingsFile.vars[k]

C3_FileOverridesDefault ==
    /\ Done
    /\ SettingsFile.vars["DEBUG"] = 2
    /\ SettingsFile.vars["API_URL"] = 1
    /\ fs[SettingsBeside].status = "ok"
    /\ fs[SettingsBeside].vars["API_URL"] = 2

\* C4: with a valid settings file and an importable route module the import
\* never raises, can always take its next step until it is complete, and
\* completes with all five steps run and app, SETTINGS and sockets defined.
C4_ValidInputsComplete ==
    (SettingsFile.status = "ok" /\ routeModule.importable) =>
      /\ exc = ""
      /\ Done \/ ENABLED ImportStep
      /\ Done => /\ log = FiveSteps
                 /\ globals.app # 0
                 /\ globals.SETTINGS # 0
                 /\ globals.sockets # 0

C4_Completed == Done /\ SettingsFile.status = "ok" /\ routeModule.importable

\* C5: once the websocket extension exists, the application whose entry
\* point it took over is the one application object of step 1: the object
\* bound to app, whose entry point ProxyFix wrapped and whose config was
\* loaded; there is no second application object.
C5_SocketsBoundToApp ==
    globals.sockets # 0 =>
      /\ Len(heap.apps) = 1
      /\ globals.app = 1
      /\ heap.calls[EntryPoint].kind = "SocketMiddleware"
      /\ heap.calls[EntryPoint].ws = globals.sockets
      /\ heap.calls[EntryPoint].app = globals.app
      /\ Nesting(EntryPoint) = <<"SocketMiddleware", "ProxyFix", "Flask.wsgi_app">>
      /\ heap.apps[globals.app].config = globals.SETTINGS

C5_ExtensionConstructed == globals.sockets # 0 /\ Done /\ lastChain # <<>>

\* C6: once constructed, and in every later state including the completed
\* one, the application has static URL prefix '/static' and static directory
\* 'static'; initialization completes only with the application defined.
C6_StaticConfigKept ==
    /\ globals.app # 0 =>
          /\ heap.apps[globals.app].static_url_path = "/static"
          /\ heap.apps[globals.app].static_folder = "static"
    /\ Len(log) > 0 /\ (Len(log) > 1 \/ exc = "") => globals.app # 0

C6_AllStepsAfterConstruction == Done /\ Len(log) = 6 /\ globals.app = 1

\* C7: a setup step that fails ends initialization: no step is taken from a
\* failed state (no retry, no later step), the failed step is the last one
\* attempted, every step was attempted at most once and the completed state
\* is never reached.
C7_FailureIsFinal ==
    /\ [](/\ \A i \in 1..Len(FiveSteps) : Count(log, FiveSteps[i]) <= 1
          /\ Failed => /\ ~Done
                       /\ Len(log) = pc
                       /\ log[Len(log)] = Program[pc])
    /\ [][~Failed /\ (Failed' => log' = Append(log, Program[pc]))]_vars

C7_SettingsFileMissing ==
    /\ exc = "IOError"
    /\ log = <<"Flask", "ProxyFix", "from_pyfile">>
    /\ globals.sockets = 0

C9_SettingsAliasesConfig ==
    globals.SETTINGS # 0 => heap.cfgs[globals.SETTINGS] = AppConfig

C9_WrittenAfterLoad ==
    /\ Done
    /\ heap.cfgs[globals.SETTINGS] # from_object(default_config, SettingsFile.vars)

====
